---- MODULE Spec2Model ----
(***************************************************************************)
(* State-machine model of src/app.py: a Chainlit chat front-end that       *)
(* bridges a streaming LLM (Azure OpenAI) with one MCP tool provider       *)
(* ("postgres").                                                           *)
(*                                                                         *)
(* Strings that the code inspects character by character (tool names,      *)
(* JSON argument strings, streamed text) are sequences of one-character    *)
(* strings, so that concatenation, prefix tests and replace() are computed *)
(* as Python computes them.  Texts the code only formats and passes on     *)
(* (error descriptions, progress lines, the system prompt) are one-element *)
(* sequences holding the whole text.  An absent dict key / None / ""       *)
(* (all falsy in Python, and never stored by the code) is the empty        *)
(* sequence.  The provider name "postgres" is one symbol of the alphabet.  *)
(***************************************************************************)
EXTENDS Integers, Sequences, FiniteSets, TLC

\* ------------------------------------------------------------------ bounds
\* user messages handled per session
MaxTurns == 2
\* stream events (chunks) delivered by the LLM per session, over all streams
MaxChunks == 2
\* stream events of one accumulator run
MaxStream == 2
\* length of a short tool name in a namespacing round trip
MaxNameLen == 3
\* tools advertised by one list_tools() result
MaxTools == 2

\* ------------------------------------------------------- program constants
POSTGRES_MCP_SERVER_NAME == <<"postgres">>

SYSTEM_PROMPT == <<"You are a helpful assistant that can query a PostgreSQL database.">>

\* ----------------------------------------------------------- string helpers
\* str.startswith
StartsWith(s, p) == Len(s) >= Len(p) /\ SubSeq(s, 1, Len(p)) = p

\* s[n:]
DropPrefix(s, n) == SubSeq(s, n + 1, Len(s))

\* str.replace('/', '_'): a single underscore for each slash
RECURSIVE ReplaceSlashBySingleUnderscore(_)
ReplaceSlashBySingleUnderscore(s) ==
    IF s = <<>> THEN <<>>
    ELSE IF Head(s) = "/" THEN <<"_">> \o ReplaceSlashBySingleUnderscore(Tail(s))
    ELSE <<Head(s)>> \o ReplaceSlashBySingleUnderscore(Tail(s))

\* str.replace('/', '__')
RECURSIVE ReplaceSlash(_)
ReplaceSlash(s) ==
    IF s = <<>> THEN <<>>
    ELSE IF Head(s) = "/" THEN <<"_", "_">> \o ReplaceSlash(Tail(s))
    ELSE <<Head(s)>> \o ReplaceSlash(Tail(s))

\* str.replace("__", "/"): leftmost, non-overlapping occurrences
RECURSIVE ReplaceDoubleUnderscore(_)
ReplaceDoubleUnderscore(s) ==
    IF s = <<>> THEN <<>>
    ELSE IF Len(s) >= 2 /\ s[1] = "_" /\ s[2] = "_"
         THEN <<"/">> \o ReplaceDoubleUnderscore(SubSeq(s, 3, Len(s)))
    ELSE <<Head(s)>> \o ReplaceDoubleUnderscore(Tail(s))

\* on_mcp_connect: f"{connection_name}__{tool_spec.name.replace('/', '__')}"
OpenaiToolName(connection_name, name) ==
    connection_name \o <<"_", "_">> \o ReplaceSlash(name)

\* main: POSTGRES_MCP_SERVER_NAME + "__"
ExpectedPrefix == POSTGRES_MCP_SERVER_NAME \o <<"_", "_">>

\* main: openai_tool_name[len(expected_prefix):].replace("__", "/")
McpToolNameActual(openai_tool_name) ==
    ReplaceDoubleUnderscore(DropPrefix(openai_tool_name, Len(ExpectedPrefix)))

\* json.loads succeeds.  Argument strings of the model are written over the
\* alphabet { "{", "}", "1" }; the JSON texts over it are "{}" and the
\* numerals "1", "11", ...
JsonLoadsOk(s) ==
    \/ s = <<"{", "}">>
    \/ s # <<>> /\ \A i \in 1..Len(s) : s[i] = "1"

\* ------------------------------------------------------------------ messages
\* A chat message dict.  Keys a message does not carry are <<>>.
Msg(role, content, tool_calls, tool_call_id, name) ==
    [role |-> role, content |-> content, tool_calls |-> tool_calls,
     tool_call_id |-> tool_call_id, name |-> name]

SystemMsg == Msg("system", SYSTEM_PROMPT, <<>>, <<>>, <<>>)

UserMsg(content) == Msg("user", content, <<>>, <<>>, <<>>)

\* {"role": "assistant", "content": response_message_content}
AssistantTextMsg(content) == Msg("assistant", content, <<>>, <<>>, <<>>)

\* {"role": "assistant", "tool_calls": tool_calls_data} plus "content" only
\* when full_response_text is non-empty
AssistantToolCallsMsg(text, tcd) == Msg("assistant", text, tcd, <<>>, <<>>)

\* A tool-result keyed by the function name instead of the call id.
ToolMsgKeyedByName(tool_call, content) ==
    Msg("tool", content, <<>>, tool_call.name, tool_call.name)

\* {"tool_call_id": tool_call["id"], "role": "tool", "name": ..., "content": ...}
ToolMsg(tool_call, content) ==
    Msg("tool", content, <<>>, tool_call.id, tool_call.name)

\* ------------------------------------------- streaming response accumulator
\* An in-progress tool call: the Python dict with the set of keys it holds.
\* function.name / function.arguments are the fields name / arguments.
EmptyCall == [keys |-> {}, id |-> <<>>, type |-> <<>>, name |-> <<>>, arguments |-> <<>>]

\* The loop run once more than needed: a placeholder behind the index too.
RECURSIVE ExtendPast(_, _)
ExtendPast(tcd, index) ==
    IF index + 1 >= Len(tcd) THEN ExtendPast(Append(tcd, EmptyCall), index) ELSE tcd

\* while tc_chunk.index >= len(tool_calls_data): tool_calls_data.append({})
RECURSIVE ExtendTo(_, _)
ExtendTo(tcd, index) ==
    IF index >= Len(tcd) THEN ExtendTo(Append(tcd, EmptyCall), index) ELSE tcd

\* if "id" not in current_tool_call and tc_chunk.id: ...
SetIdIfAbsent(cur, d) ==
    IF "id" \notin cur.keys /\ d.id # <<>>
    THEN [cur EXCEPT !.keys = @ \cup {"id"}, !.id = d.id]
    ELSE cur

\* if "type" not in ... and tc_chunk.type: ... elif "type" not in ...: "function"
SetType(cur, d) ==
    IF "type" \notin cur.keys /\ d.type # <<>>
    THEN [cur EXCEPT !.keys = @ \cup {"type"}, !.type = d.type]
    ELSE IF "type" \notin cur.keys
    THEN [cur EXCEPT !.keys = @ \cup {"type"}, !.type = <<"function">>]
    ELSE cur

\* if "function" not in current_tool_call: {"name": "", "arguments": ""}
InitFunction(cur) ==
    IF "function" \notin cur.keys
    THEN [cur EXCEPT !.keys = @ \cup {"function"}, !.name = <<>>, !.arguments = <<>>]
    ELSE cur

\* if tc_chunk.id: current_tool_call["id"] = tc_chunk.id
OverwriteId(cur, d) ==
    IF d.id # <<>> THEN [cur EXCEPT !.keys = @ \cup {"id"}, !.id = d.id] ELSE cur

\* The fragments assigned instead of appended: the last one is kept.
AssignFunction(cur, d) ==
    [cur EXCEPT !.name = IF d.name # <<>> THEN d.name ELSE @,
                !.arguments = IF d.arguments # <<>> THEN d.arguments ELSE @]

\* if tc_chunk.function: name += ..., arguments += ...
AppendFunction(cur, d) ==
    [cur EXCEPT !.name = @ \o d.name, !.arguments = @ \o d.arguments]

\* the body of "for tc_chunk in tool_call_chunks" for one delta d
ApplyToolCallChunk(tcd, d) ==
    LET ext == ExtendTo(tcd, d.index)
        cur == ext[d.index + 1]
    IN  [ext EXCEPT ![d.index + 1] =
            AppendFunction(OverwriteId(InitFunction(SetType(SetIdIfAbsent(cur, d), d)), d), d)]

RECURSIVE ApplyToolCallChunks(_, _)
ApplyToolCallChunks(tcd, ds) ==
    IF ds = <<>> THEN tcd
    ELSE ApplyToolCallChunks(ApplyToolCallChunk(tcd, Head(ds)), Tail(ds))

\* The fragment put in front of the text instead of behind it.
AccumulateTextInFront(text, chunk) ==
    IF chunk.choices /\ chunk.content # <<>> THEN chunk.content \o text ELSE text

\* full_response_text += content_chunk (skipped when content_chunk is falsy)
AccumulateText(text, chunk) ==
    IF chunk.choices /\ chunk.content # <<>> THEN text \o chunk.content ELSE text

\* await cl_msg.stream_token(content_chunk) (same guard)
ForwardToken(tokens, chunk) ==
    IF chunk.choices /\ chunk.content # <<>> THEN Append(tokens, chunk.content) ELSE tokens

\* if tool_call_chunks: for tc_chunk in tool_call_chunks: ...
AccumulateToolCalls(tcd, chunk) ==
    IF chunk.choices THEN ApplyToolCallChunks(tcd, chunk.tool_calls) ELSE tcd

\* The test without its any(...): true of every non-empty list.
HasAnyCall(tcd) == tcd # <<>>

\* tool_calls_data and any(tc.get("function", {}).get("name") for tc in ...)
HasNamedCall(tcd) == \E i \in 1..Len(tcd) : tcd[i].name # <<>>

\* ------------------------------------------------------------- stream events
\* A tool-call delta: index, id?, type?, function.name?, function.arguments?
Delta(index, id, type, name, arguments) ==
    [index |-> index, id |-> id, type |-> type, name |-> name, arguments |-> arguments]

\* A stream event: chunk.choices non-empty or not, delta.content,
\* delta.tool_calls
Chunk(choices, content, tool_calls) ==
    [choices |-> choices, content |-> content, tool_calls |-> tool_calls]

\* Inputs of the session model: the stream events the LLM may deliver.
TextFragments == {<<"a">>}

CallIndices == {0, 1}

CallIds == {<<>>, <<"x">>}

\* function.name / function.arguments of a delta: nothing, a name without
\* the provider prefix, a prefixed name without arguments, a prefixed name
\* with the arguments "{}"
FunctionFragments ==
    {[name |-> <<>>, arguments |-> <<>>],
     [name |-> <<"q">>, arguments |-> <<>>],
     [name |-> ExpectedPrefix \o <<"q">>, arguments |-> <<>>],
     [name |-> ExpectedPrefix \o <<"q">>, arguments |-> <<"{", "}">>]}

SessionDeltas ==
    {Delta(i, id, <<>>, f.name, f.arguments) :
        i \in CallIndices, id \in CallIds, f \in FunctionFragments}

\* no choices; text only; one tool-call delta and no text
SessionChunks ==
    {Chunk(FALSE, <<>>, <<>>)}
    \cup {Chunk(TRUE, t, <<>>) : t \in TextFragments}
    \cup {Chunk(TRUE, <<>>, <<d>>) : d \in SessionDeltas}

\* What an awaited call_tool can do: return a text item, return no text
\* item, or raise.
CallToolOutcomes == {"text", "no_text", "raise"}

\* ------------------------------------------------------------ tool catalog
\* A tool advertised by list_tools(): name, description?, inputSchema?
ToolSpec(name, description, inputSchema) ==
    [name |-> name, description |-> description, inputSchema |-> inputSchema]

\* The function schema on_mcp_connect builds for one tool_spec.
OpenaiTool(connection_name, tool_spec) ==
    [type |-> "function",
     name |-> OpenaiToolName(connection_name, tool_spec.name),
     description |-> tool_spec.description,
     parameters |-> IF tool_spec.inputSchema = <<>>
                    THEN <<"{type: object, properties: {}}">>
                    ELSE tool_spec.inputSchema]

\* connection_openai_tools: one schema per tool, in order
ConnectionOpenaiTools(connection_name, tools) ==
    [i \in 1..Len(tools) |-> OpenaiTool(connection_name, tools[i])]

\* Results of list_tools(): no tools, two tools.
ToolLists ==
    {<<>>,
     <<ToolSpec(<<"a", "/", "b">>, <<"d">>, <<"schema">>), ToolSpec(<<"q">>, <<>>, <<>>)>>}

\* A Python dict keyed by provider name: a function on the set of its keys.
EmptyDict == [k \in {} |-> <<>>]

DictSet(d, k, v) == [x \in DOMAIN d \cup {k} |-> IF x = k THEN v ELSE d[x]]

DictGet(d, k, default) == IF k \in DOMAIN d THEN d[k] ELSE default

\* --------------------------------------------------------------------- state
VARIABLES
    mcp_classes_available,     \* MCP_CLASSES_AVAILABLE and ClientSession is not None
    azure_client,              \* the LLM client is configured
    config_error_reports,      \* the configuration errors shown to the user
    history,                   \* cl.user_session "history"
    openai_tools_for_mcp,      \* cl.user_session "openai_tools_for_mcp"
    mcp_sessions,              \* cl.context.session.mcp_sessions holds "postgres"
    pc,                        \* where main() is suspended
    messages_for_llm,
    full_response_text,
    tool_calls_data,
    cl_msg,                    \* tokens streamed into cl_msg, in order
    tool_i,                    \* position of "for tool_call in tool_calls_data"
    final_llm_response_text,
    response_message_content,
    llm_requests,              \* chat.completions.create calls of the current turn
    dispatch_log,              \* calls the loop body handled in the current turn
    ended,                     \* how the latest turn returned
    turn_start,                \* len(history) when the current turn began
    connect_error,             \* on_mcp_connect ended with an unhandled error
    turns, chunks,             \* counters for the bounds
    stream,                    \* the stream events consumed (accumulator runs)
    roundtrip,                 \* a tool name being encoded and decoded
    last_connect               \* the latest provider-connect notification

vars ==
    <<mcp_classes_available, azure_client, config_error_reports, history, openai_tools_for_mcp,
      mcp_sessions, pc, messages_for_llm, full_response_text, tool_calls_data,
      cl_msg, tool_i, final_llm_response_text, response_message_content,
      llm_requests, dispatch_log, ended, turn_start, connect_error,
      turns, chunks, stream, roundtrip, last_connect>>

aux == <<stream, roundtrip, last_connect>>

config == <<mcp_classes_available, azure_client>>

session == <<history, openai_tools_for_mcp>>

locals ==
    <<messages_for_llm, full_response_text, tool_calls_data, cl_msg, tool_i,
      final_llm_response_text, response_message_content>>

ghosts == <<llm_requests, dispatch_log, ended, turn_start>>

NoRoundtrip == [stage |-> "none", name |-> <<>>, openai |-> <<>>, actual |-> <<>>]

\* A notification: the connection name, what list_tools() did, the tools it
\* returned, and the catalog the handler found.
Notification(name, outcome, tools, found) ==
    [name |-> name, outcome |-> outcome, tools |-> tools, found |-> found]

NoNotification == Notification(<<>>, "none", <<>>, <<>>)

\* start_chat: one message for each missing piece of configuration
StartChatReports ==
    (IF ~mcp_classes_available THEN <<"mcp">> ELSE <<>>)
    \o (IF ~azure_client THEN <<"azure">> ELSE <<>>)

\* main: the first guard that fails sends its message
MainReport == IF ~mcp_classes_available THEN "mcp" ELSE "azure"

\* State after start_chat: the configuration errors reported, empty history,
\* empty catalog, no turn in flight.
InitSession ==
    /\ config_error_reports = StartChatReports
    /\ history = <<>>
    /\ openai_tools_for_mcp = EmptyDict
    /\ mcp_sessions = FALSE
    /\ pc = "Idle"
    /\ messages_for_llm = <<>>
    /\ full_response_text = <<>>
    /\ tool_calls_data = <<>>
    /\ cl_msg = <<>>
    /\ tool_i = 1
    /\ final_llm_response_text = <<>>
    /\ response_message_content = <<>>
    /\ llm_requests = 0
    /\ dispatch_log = <<>>
    /\ ended = "none"
    /\ turn_start = 0
    /\ connect_error = FALSE
    /\ turns = 0
    /\ chunks = 0

Init ==
    /\ mcp_classes_available \in BOOLEAN
    /\ azure_client \in BOOLEAN
    /\ InitSession
    /\ stream = <<>>
    /\ roundtrip = NoRoundtrip
    /\ last_connect = NoNotification

\* ------------------------------------------------------------ on_mcp_connect
\* Notification for the "postgres" provider whose list_tools() returns
\* `tools`: the catalog entry is written only when the list is non-empty.
OnMcpConnectTools ==
    /\ \E tools \in ToolLists :
          openai_tools_for_mcp' =
              IF tools # <<>>
              THEN DictSet(openai_tools_for_mcp, POSTGRES_MCP_SERVER_NAME,
                           ConnectionOpenaiTools(POSTGRES_MCP_SERVER_NAME, tools))
              ELSE openai_tools_for_mcp
    /\ mcp_sessions' = TRUE
    /\ UNCHANGED <<config, config_error_reports, aux, history, pc, locals, ghosts, connect_error, turns, chunks>>

\* Notification for "postgres" whose list_tools() raises: caught, reported.
OnMcpConnectListToolsRaises ==
    /\ mcp_sessions' = TRUE
    /\ UNCHANGED <<config, config_error_reports, aux, session, pc, locals, ghosts, connect_error, turns, chunks>>

\* Notification for any other provider: the else branch formats str(e) with
\* e unbound, so the handler ends with an unhandled NameError.
OnMcpConnectOther ==
    /\ connect_error' = TRUE
    /\ UNCHANGED <<config, config_error_reports, aux, session, mcp_sessions, pc, locals, ghosts, turns, chunks>>

\* The framework drops the provider's session (main reads mcp_sessions and
\* finds no "postgres" entry).
McpDisconnect ==
    /\ mcp_sessions
    /\ mcp_sessions' = FALSE
    /\ UNCHANGED <<config, config_error_reports, aux, session, pc, locals, ghosts, connect_error, turns, chunks>>

\* ---------------------------------------------------------------------- main
UserContent == <<"u">>

\* f"An error occurred: {str(e)}"
ErrorText(e) == <<"An error occurred: ", e>>

\* The append without its guard: an empty content is stored too.
CommitHistoryUnguarded(h, content) == Append(h, AssistantTextMsg(content))

\* if response_message_content: history.append({"role": "assistant", ...})
CommitHistory(h, content) ==
    IF content # <<>> THEN Append(h, AssistantTextMsg(content)) ELSE h

\* on_message with a missing MCP class or LLM client: report, return.
MainUnconfigured ==
    /\ pc = "Idle"
    /\ turns < MaxTurns
    /\ ~(mcp_classes_available /\ azure_client)
    /\ config_error_reports' = Append(config_error_reports, MainReport)
    /\ turns' = turns + 1
    /\ ended' = "unconfigured"
    /\ UNCHANGED <<config, aux, session, mcp_sessions, pc, locals, llm_requests,
                   dispatch_log, turn_start, connect_error, chunks>>

\* on_message up to the first chat.completions.create(**settings, stream=True)
MainStart ==
    /\ pc = "Idle"
    /\ turns < MaxTurns
    /\ mcp_classes_available /\ azure_client
    /\ turns' = turns + 1
    /\ turn_start' = Len(history)
    /\ history' = Append(history, UserMsg(UserContent))
    /\ messages_for_llm' = <<SystemMsg>> \o history'
    /\ llm_requests' = 1
    /\ full_response_text' = <<>>
    /\ tool_calls_data' = <<>>
    /\ cl_msg' = <<>>
    /\ tool_i' = 1
    /\ final_llm_response_text' = <<>>
    /\ response_message_content' = <<>>
    /\ dispatch_log' = <<>>
    /\ ended' = "none"
    /\ pc' = "FirstStream"
    /\ UNCHANGED <<config, config_error_reports, aux, openai_tools_for_mcp, mcp_sessions, connect_error, chunks>>

\* one iteration of "async for chunk in stream"
FirstChunk ==
    /\ pc = "FirstStream"
    /\ chunks < MaxChunks
    /\ \E c \in SessionChunks :
          /\ full_response_text' = AccumulateText(full_response_text, c)
          /\ cl_msg' = ForwardToken(cl_msg, c)
          /\ tool_calls_data' = AccumulateToolCalls(tool_calls_data, c)
    /\ chunks' = chunks + 1
    /\ UNCHANGED <<config, config_error_reports, aux, session, mcp_sessions, pc, messages_for_llm, tool_i,
                   final_llm_response_text, response_message_content, ghosts,
                   connect_error, turns>>

\* stream exhausted, no named tool call: the first text is the answer
FirstStreamEndNoTools ==
    /\ pc = "FirstStream"
    /\ ~HasNamedCall(tool_calls_data)
    /\ response_message_content' = full_response_text
    /\ history' = CommitHistory(history, response_message_content')
    /\ ended' = "committed"
    /\ pc' = "Idle"
    /\ UNCHANGED <<config, config_error_reports, aux, openai_tools_for_mcp, mcp_sessions, messages_for_llm,
                   full_response_text, tool_calls_data, cl_msg, tool_i,
                   final_llm_response_text, llm_requests, dispatch_log,
                   turn_start, connect_error, turns, chunks>>

\* stream exhausted with a named tool call and a "postgres" session: record
\* the assistant message in history and in messages_for_llm, start the loop
FirstStreamEndTools ==
    /\ pc = "FirstStream"
    /\ HasNamedCall(tool_calls_data)
    /\ mcp_sessions
    /\ LET m == AssistantToolCallsMsg(full_response_text, tool_calls_data)
       IN  /\ history' = Append(history, m)
           /\ messages_for_llm' = Append(messages_for_llm, m)
    /\ cl_msg' = Append(cl_msg, <<"Using tool(s)...">>)
    /\ tool_i' = 1
    /\ pc' = "ToolPhase"
    /\ UNCHANGED <<config, config_error_reports, aux, openai_tools_for_mcp, mcp_sessions, full_response_text,
                   tool_calls_data, final_llm_response_text, response_message_content,
                   ghosts, connect_error, turns, chunks>>

\* the same with no "postgres" session: report the error and return
FirstStreamEndNoSession ==
    /\ pc = "FirstStream"
    /\ HasNamedCall(tool_calls_data)
    /\ ~mcp_sessions
    /\ LET m == AssistantToolCallsMsg(full_response_text, tool_calls_data)
       IN  /\ history' = Append(history, m)
           /\ messages_for_llm' = Append(messages_for_llm, m)
    /\ cl_msg' = cl_msg \o <<<<"Using tool(s)...">>, <<"Error: Could not find active MCP session">>>>
    /\ ended' = "no_session"
    /\ pc' = "Idle"
    /\ UNCHANGED <<config, config_error_reports, aux, openai_tools_for_mcp, mcp_sessions, full_response_text,
                   tool_calls_data, tool_i, final_llm_response_text,
                   response_message_content, llm_requests, dispatch_log,
                   turn_start, connect_error, turns, chunks>>

\* except Exception as e (the handler around the whole turn), then the
\* commit that follows it: the error text is the response content
ExceptHandler(e, how) ==
    /\ response_message_content' = ErrorText(e)
    /\ history' = CommitHistory(history, response_message_content')
    /\ ended' = how
    /\ pc' = "Idle"

\* Tool-result contents.
FormatErrorContent == <<"Error: Tool name not in expected format">>

JsonErrorContent == <<"Error: Invalid JSON arguments">>

CallErrorContent == <<"Error calling MCP tool">>

NoTextContent == <<"Tool execution failed or returned no text.">>

ToolTextContent == <<"tool text">>

\* messages_for_llm.append({"tool_call_id": tool_call["id"], ...}): the
\* subscript raises KeyError when the call never received an id, and the
\* KeyError reaches the handler around the turn
EmitToolResult(tool_call, content) ==
    IF "id" \in tool_call.keys
    THEN /\ messages_for_llm' = Append(messages_for_llm, ToolMsg(tool_call, content))
         /\ tool_i' = tool_i + 1
         /\ UNCHANGED <<history, response_message_content, ended, pc>>
    ELSE /\ ExceptHandler("'id'", "dispatch_error")
         /\ UNCHANGED <<messages_for_llm, tool_i>>

\* What the loop body did with the call at position index: which step
\* ended it, what call_tool did, and the name call_tool was given.
LogEntry(index, step, outcome, name) ==
    [index |-> index, step |-> step, outcome |-> outcome, name |-> name]

\* The skip that does not move on to the next call.
DispatchSkipWithoutAdvance ==
    /\ pc = "ToolPhase"
    /\ tool_i <= Len(tool_calls_data)
    /\ tool_calls_data[tool_i].name = <<>>
    /\ UNCHANGED vars

\* if not tool_call.get("function", {}).get("name"): continue
DispatchSkip ==
    /\ pc = "ToolPhase"
    /\ tool_i <= Len(tool_calls_data)
    /\ tool_calls_data[tool_i].name = <<>>
    /\ tool_i' = tool_i + 1
    /\ UNCHANGED <<config, config_error_reports, aux, session, mcp_sessions, pc, messages_for_llm,
                   full_response_text, tool_calls_data, cl_msg,
                   final_llm_response_text, response_message_content, ghosts,
                   connect_error, turns, chunks>>

\* name without the expected prefix: tool-result with the format error
DispatchBadPrefix ==
    /\ pc = "ToolPhase"
    /\ tool_i <= Len(tool_calls_data)
    /\ LET tool_call == tool_calls_data[tool_i]
       IN  /\ tool_call.name # <<>>
           /\ ~StartsWith(tool_call.name, ExpectedPrefix)
           /\ EmitToolResult(tool_call, FormatErrorContent)
    /\ dispatch_log' = Append(dispatch_log, LogEntry(tool_i, "bad_prefix", "none", <<>>))
    /\ cl_msg' = Append(cl_msg, FormatErrorContent)
    /\ UNCHANGED <<config, config_error_reports, aux, openai_tools_for_mcp, mcp_sessions, full_response_text,
                   tool_calls_data, final_llm_response_text, llm_requests,
                   turn_start, connect_error, turns, chunks>>

\* json.loads raises JSONDecodeError: tool-result with the parse error
DispatchBadJson ==
    /\ pc = "ToolPhase"
    /\ tool_i <= Len(tool_calls_data)
    /\ LET tool_call == tool_calls_data[tool_i]
       IN  /\ tool_call.name # <<>>
           /\ StartsWith(tool_call.name, ExpectedPrefix)
           /\ ~JsonLoadsOk(tool_call.arguments)
           /\ EmitToolResult(tool_call, JsonErrorContent)
    /\ dispatch_log' = Append(dispatch_log, LogEntry(tool_i, "bad_json", "none", <<>>))
    /\ cl_msg' = Append(cl_msg, JsonErrorContent)
    /\ UNCHANGED <<config, config_error_reports, aux, openai_tools_for_mcp, mcp_sessions, full_response_text,
                   tool_calls_data, final_llm_response_text, llm_requests,
                   turn_start, connect_error, turns, chunks>>

\* what the tool-result says for each outcome of call_tool
CallToolContent(outcome) ==
    IF outcome = "text" THEN ToolTextContent
    ELSE IF outcome = "no_text" THEN NoTextContent
    ELSE CallErrorContent

\* await actual_mcp_session.call_tool(name=..., arguments=...) and the
\* tool-result built from its response or from the exception it raised
DispatchCallTool ==
    /\ pc = "ToolPhase"
    /\ tool_i <= Len(tool_calls_data)
    /\ LET tool_call == tool_calls_data[tool_i]
       IN  /\ tool_call.name # <<>>
           /\ StartsWith(tool_call.name, ExpectedPrefix)
           /\ JsonLoadsOk(tool_call.arguments)
           /\ \E outcome \in CallToolOutcomes :
                 /\ dispatch_log' = Append(dispatch_log,
                        LogEntry(tool_i, "call_tool", outcome,
                                 McpToolNameActual(tool_call.name)))
                 /\ EmitToolResult(tool_call, CallToolContent(outcome))
                 /\ cl_msg' = cl_msg \o <<<<"Calling MCP tool">>, CallToolContent(outcome)>>
    /\ UNCHANGED <<config, config_error_reports, aux, openai_tools_for_mcp, mcp_sessions, full_response_text,
                   tool_calls_data, final_llm_response_text, llm_requests,
                   turn_start, connect_error, turns, chunks>>

\* loop done: the second chat.completions.create(messages=messages_for_llm)
SecondRequest ==
    /\ pc = "ToolPhase"
    /\ tool_i > Len(tool_calls_data)
    /\ llm_requests' = llm_requests + 1
    /\ final_llm_response_text' = <<>>
    /\ pc' = "SecondStream"
    /\ UNCHANGED <<config, config_error_reports, aux, session, mcp_sessions, messages_for_llm,
                   full_response_text, tool_calls_data, cl_msg, tool_i,
                   response_message_content, dispatch_log, ended, turn_start,
                   connect_error, turns, chunks>>

\* one iteration of "async for chunk_after_tool in stream_after_tool_call":
\* only delta.content is read
SecondChunk ==
    /\ pc = "SecondStream"
    /\ chunks < MaxChunks
    /\ \E c \in SessionChunks :
          /\ final_llm_response_text' = AccumulateText(final_llm_response_text, c)
          /\ cl_msg' = ForwardToken(cl_msg, c)
    /\ chunks' = chunks + 1
    /\ UNCHANGED <<config, config_error_reports, aux, session, mcp_sessions, pc, messages_for_llm,
                   full_response_text, tool_calls_data, tool_i,
                   response_message_content, ghosts, connect_error, turns>>

\* second stream exhausted: its text is the answer
SecondStreamEnd ==
    /\ pc = "SecondStream"
    /\ response_message_content' = final_llm_response_text
    /\ history' = CommitHistory(history, response_message_content')
    /\ ended' = "committed"
    /\ pc' = "Idle"
    /\ UNCHANGED <<config, config_error_reports, aux, openai_tools_for_mcp, mcp_sessions, messages_for_llm,
                   full_response_text, tool_calls_data, cl_msg, tool_i,
                   final_llm_response_text, llm_requests, dispatch_log,
                   turn_start, connect_error, turns, chunks>>

\* create() or the stream iteration raises, in either round-trip
LlmRaises ==
    /\ pc \in {"FirstStream", "SecondStream"}
    /\ ExceptHandler("llm", "llm_error")
    /\ UNCHANGED <<config, config_error_reports, aux, openai_tools_for_mcp, mcp_sessions, messages_for_llm,
                   full_response_text, tool_calls_data, cl_msg, tool_i,
                   final_llm_response_text, llm_requests, dispatch_log,
                   turn_start, connect_error, turns, chunks>>

Next ==
    \/ OnMcpConnectTools
    \/ OnMcpConnectListToolsRaises
    \/ McpDisconnect
    \/ MainUnconfigured
    \/ MainStart
    \/ FirstChunk
    \/ FirstStreamEndNoTools
    \/ FirstStreamEndTools
    \/ FirstStreamEndNoSession
    \/ DispatchSkip
    \/ DispatchBadPrefix
    \/ DispatchBadJson
    \/ DispatchCallTool
    \/ SecondRequest
    \/ SecondChunk
    \/ SecondStreamEnd
    \/ LlmRaises

Spec == Init /\ [][Next]_vars

\* ------------------------------------------------- the accumulator on its own
\* One first response, from any bounded sequence of stream events.
AccTextFragments == {<<>>, <<"a">>, <<"b">>, <<"a", "b">>}

AccIndices == {0, 1}

AccIds == {<<>>, <<"x">>, <<"y">>}

AccTypes == {<<>>, <<"custom">>}

AccNameFragments == {<<>>, <<"q">>}

AccArgumentFragments == {<<>>, <<"{">>, <<"}">>}

AccDeltas ==
    {Delta(i, id, type, n, a) :
        i \in AccIndices, id \in AccIds, type \in AccTypes,
        n \in AccNameFragments, a \in AccArgumentFragments}

\* no choices; text only; one delta and no text; text and a delta together;
\* two deltas for two indices in one event
AccChunks ==
    {Chunk(FALSE, <<>>, <<>>)}
    \cup {Chunk(TRUE, t, <<>>) : t \in AccTextFragments}
    \cup {Chunk(TRUE, <<>>, <<d>>) : d \in AccDeltas}
    \cup {Chunk(TRUE, <<"b">>, <<Delta(0, <<"x">>, <<>>, <<"q">>, <<"{">>)>>)}
    \cup {Chunk(TRUE, <<>>, <<Delta(0, <<"x">>, <<>>, <<"p">>, <<"{">>),
                             Delta(1, <<"y">>, <<>>, <<"q">>, <<"1">>)>>)}

\* main has made its first request and waits for the stream
InitAcc ==
    /\ mcp_classes_available = TRUE
    /\ azure_client = TRUE
    /\ config_error_reports = <<>>
    /\ history = <<UserMsg(UserContent)>>
    /\ openai_tools_for_mcp = EmptyDict
    /\ mcp_sessions = FALSE
    /\ pc = "FirstStream"
    /\ messages_for_llm = <<SystemMsg>> \o history
    /\ full_response_text = <<>>
    /\ tool_calls_data = <<>>
    /\ cl_msg = <<>>
    /\ tool_i = 1
    /\ final_llm_response_text = <<>>
    /\ response_message_content = <<>>
    /\ llm_requests = 1
    /\ dispatch_log = <<>>
    /\ ended = "none"
    /\ turn_start = 0
    /\ connect_error = FALSE
    /\ turns = 1
    /\ chunks = 0
    /\ stream = <<>>
    /\ roundtrip = NoRoundtrip
    /\ last_connect = NoNotification

\* one iteration of "async for chunk in stream", the event remembered
AccChunk ==
    /\ pc = "FirstStream"
    /\ Len(stream) < MaxStream
    /\ \E c \in AccChunks :
          /\ full_response_text' = AccumulateText(full_response_text, c)
          /\ cl_msg' = ForwardToken(cl_msg, c)
          /\ tool_calls_data' = AccumulateToolCalls(tool_calls_data, c)
          /\ stream' = Append(stream, c)
    /\ UNCHANGED <<config, config_error_reports, session, mcp_sessions, pc, messages_for_llm, tool_i,
                   final_llm_response_text, response_message_content, ghosts,
                   connect_error, turns, chunks, roundtrip, last_connect>>

NextAcc == AccChunk

SpecAcc == InitAcc /\ [][NextAcc]_vars

\* ------------------------------------------------ namespacing on its own
NameAlphabet == {"a", "/", "_"}

\* every short tool name of at most MaxNameLen characters
ShortNames == UNION {[1..k -> NameAlphabet] : k \in 0..MaxNameLen}

InitNames ==
    /\ mcp_classes_available = TRUE
    /\ azure_client = TRUE
    /\ InitSession
    /\ stream = <<>>
    /\ last_connect = NoNotification
    /\ \E n \in ShortNames :
          roundtrip = [stage |-> "advertised", name |-> n, openai |-> <<>>, actual |-> <<>>]

\* on_mcp_connect names the tool for the LLM
NamesEncode ==
    /\ roundtrip.stage = "advertised"
    /\ roundtrip' = [roundtrip EXCEPT
                        !.stage = "offered",
                        !.openai = OpenaiToolName(POSTGRES_MCP_SERVER_NAME, roundtrip.name)]
    /\ UNCHANGED <<config, config_error_reports, session, mcp_sessions, pc, locals, ghosts,
                   connect_error, turns, chunks, stream, last_connect>>

\* main resolves the name the LLM asked for
NamesDecode ==
    /\ roundtrip.stage = "offered"
    /\ StartsWith(roundtrip.openai, ExpectedPrefix)
    /\ roundtrip' = [roundtrip EXCEPT
                        !.stage = "resolved",
                        !.actual = McpToolNameActual(roundtrip.openai)]
    /\ UNCHANGED <<config, config_error_reports, session, mcp_sessions, pc, locals, ghosts,
                   connect_error, turns, chunks, stream, last_connect>>

NextNames == NamesEncode \/ NamesDecode

SpecNames == InitNames /\ [][NextNames]_vars

\* ------------------------------------------------------- one turn on its own
\* main has made its first request; the provider session exists or not
InitTurn ==
    /\ mcp_classes_available = TRUE
    /\ azure_client = TRUE
    /\ config_error_reports = <<>>
    /\ history = <<UserMsg(UserContent)>>
    /\ openai_tools_for_mcp = EmptyDict
    /\ mcp_sessions \in BOOLEAN
    /\ pc = "FirstStream"
    /\ messages_for_llm = <<SystemMsg>> \o history
    /\ full_response_text = <<>>
    /\ tool_calls_data = <<>>
    /\ cl_msg = <<>>
    /\ tool_i = 1
    /\ final_llm_response_text = <<>>
    /\ response_message_content = <<>>
    /\ llm_requests = 1
    /\ dispatch_log = <<>>
    /\ ended = "none"
    /\ turn_start = 0
    /\ connect_error = FALSE
    /\ turns = 1
    /\ chunks = 0
    /\ stream = <<>>
    /\ roundtrip = NoRoundtrip
    /\ last_connect = NoNotification

\* one iteration of "async for chunk in stream", the event remembered
TurnChunk ==
    /\ pc = "FirstStream"
    /\ Len(stream) < MaxStream
    /\ \E c \in SessionChunks :
          /\ full_response_text' = AccumulateText(full_response_text, c)
          /\ cl_msg' = ForwardToken(cl_msg, c)
          /\ tool_calls_data' = AccumulateToolCalls(tool_calls_data, c)
          /\ stream' = Append(stream, c)
    /\ UNCHANGED <<config, config_error_reports, session, mcp_sessions, pc,
                   messages_for_llm, tool_i, final_llm_response_text,
                   response_message_content, ghosts, connect_error, turns, chunks,
                   roundtrip, last_connect>>

\* the steps of main that are not the arrival of a stream event
TurnStep ==
    \/ FirstStreamEndNoTools
    \/ FirstStreamEndTools
    \/ FirstStreamEndNoSession
    \/ DispatchSkip
    \/ DispatchBadPrefix
    \/ DispatchBadJson
    \/ DispatchCallTool
    \/ SecondRequest
    \/ SecondStreamEnd
    \/ LlmRaises

NextTurn == TurnChunk \/ SecondChunk \/ TurnStep

SpecTurn == InitTurn /\ [][NextTurn]_vars

\* Every stream ends or raises, every awaited call returns or raises, and
\* the interpreter runs the code between two awaits.
SpecTurnFair == SpecTurn /\ WF_vars(TurnStep)

\* ------------------------------------------- provider connections on their own
\* getattr(connection, 'name', 'unknown_mcp_server')
ConnectionNames == {POSTGRES_MCP_SERVER_NAME, <<"other">>}

\* What the awaited session.list_tools() can do.
ListToolsOutcomes == {"returns", "raises"}

AdvertisedTools ==
    {ToolSpec(<<"a", "/", "b">>, <<"d">>, <<"schema">>), ToolSpec(<<"q">>, <<>>, <<>>)}

\* list_tools_result.tools: every list of at most MaxTools advertised tools
\* (the empty list also stands for a result without a tools attribute)
ConnectToolLists == UNION {[1..k -> AdvertisedTools] : k \in 0..MaxTools}

\* on_mcp_connect(connection, session), the whole handler.  For "postgres"
\* the catalog entry is written only when list_tools() returned a non-empty
\* list; an exception of list_tools() is caught and reported.  For any other
\* name the else branch formats str(e) with e unbound: NameError leaves the
\* handler.
OnMcpConnect(connection_name, outcome, tools) ==
    /\ last_connect' = Notification(connection_name, outcome, tools, openai_tools_for_mcp)
    /\ IF connection_name = POSTGRES_MCP_SERVER_NAME
       THEN /\ openai_tools_for_mcp' =
                  IF outcome = "returns" /\ tools # <<>>
                  THEN DictSet(openai_tools_for_mcp, connection_name,
                               ConnectionOpenaiTools(connection_name, tools))
                  ELSE openai_tools_for_mcp
            /\ mcp_sessions' = TRUE
            /\ UNCHANGED connect_error
       ELSE /\ connect_error' = TRUE
            /\ UNCHANGED <<openai_tools_for_mcp, mcp_sessions>>
    /\ UNCHANGED <<config, config_error_reports, history, pc, locals, ghosts, turns, chunks, stream, roundtrip>>

InitConnect ==
    /\ mcp_classes_available \in BOOLEAN
    /\ azure_client \in BOOLEAN
    /\ InitSession
    /\ stream = <<>>
    /\ roundtrip = NoRoundtrip
    /\ last_connect = NoNotification

NextConnect ==
    \E connection_name \in ConnectionNames, tools \in ConnectToolLists :
        \/ OnMcpConnect(connection_name, "returns", tools)
        \/ OnMcpConnect(connection_name, "raises", <<>>)

SpecConnect == InitConnect /\ [][NextConnect]_vars

\* ------------------------------------------------------------------- claims
\* The positions, in order, of the calls with a non-empty function name.
NamedIndices(tcd) ==
    SelectSeq([i \in 1..Len(tcd) |-> i], LAMBDA i : tcd[i].name # <<>>)

\* The tool-result messages the loop has emitted in the current turn:
\* messages_for_llm behind the system prompt, the history the turn started
\* with, the user message and the assistant message with the tool calls.
DispatcherResults == SubSeq(messages_for_llm, turn_start + 4, Len(messages_for_llm))

\* The positions the loop body handled, in the order it handled them.
DispatchedIndices == [k \in 1..Len(dispatch_log) |-> dispatch_log[k].index]

\* The latest turn got a complete first response.
FirstResponseComplete ==
    \/ ended \in {"committed", "no_session", "dispatch_error"}
    \/ ended = "llm_error" /\ llm_requests = 2

\* The loop over tool_calls_data of the current turn is over.
ToolPhaseOver ==
    \/ pc = "SecondStream"
    \/ pc = "Idle" /\ (llm_requests = 2 \/ ended = "dispatch_error")

\* The text a completed turn ends with.
FinalText ==
    IF llm_requests = 2 THEN final_llm_response_text ELSE full_response_text

\* C1 (as claimed): after a turn with a tool phase has completed, the
\* tool-result messages of the Dispatcher stand in history, in call order,
\* directly after the assistant message that carries the tool calls.
C1_ToolResultsInHistory ==
    (pc = "Idle" /\ ended = "committed" /\ llm_requests = 2) =>
        /\ Len(DispatcherResults) > 0
        /\ Len(history) >= turn_start + 2 + Len(DispatcherResults)
        /\ SubSeq(history, turn_start + 3, turn_start + 2 + Len(DispatcherResults))
              = DispatcherResults

\* A message list in which every tool message answers a tool call of the
\* nearest assistant message before it, with only tool messages in between.
ToolMessagesAnswerAssistant(ms) ==
    \A i \in 1..Len(ms) :
        ms[i].role = "tool" =>
            \E j \in 1..(i - 1) :
                /\ ms[j].role = "assistant"
                /\ \A k \in (j + 1)..(i - 1) : ms[k].role = "tool"
                /\ \E c \in 1..Len(ms[j].tool_calls) :
                      /\ "id" \in ms[j].tool_calls[c].keys
                      /\ ms[j].tool_calls[c].id = ms[i].tool_call_id

\* C2: while an LLM request is in flight (first or second round-trip, any
\* turn) the message list it was given, messages_for_llm, has every tool
\* message answering a tool call of the nearest preceding assistant message,
\* with only tool messages between the two.
C2_ToolMessagesFollowTheirCall ==
    pc \in {"FirstStream", "SecondStream"} => ToolMessagesAnswerAssistant(messages_for_llm)

\* C2 witness: a second request that carries two tool-result messages.
C2_Witness ==
    /\ pc = "SecondStream"
    /\ Len(DispatcherResults) = 2
    /\ \A i \in 1..2 : DispatcherResults[i].role = "tool"

\* C3 (as claimed): a turn whose first response has no tool call makes one
\* LLM request; a turn whose first response has a named tool call makes two
\* and handles every named call once, in list order.
C3_RequestsAndDispatchPerTurn ==
    (pc = "Idle" /\ FirstResponseComplete) =>
        /\ tool_calls_data = <<>> => (llm_requests = 1 /\ dispatch_log = <<>>)
        /\ NamedIndices(tool_calls_data) # <<>> =>
              (llm_requests = 2 /\ DispatchedIndices = NamedIndices(tool_calls_data))

\* C3 (amended): with no named call, one request and no dispatch; with a
\* named call and no provider session, one request and no dispatch; with a
\* named call and a session, the named calls are handled once each in list
\* order, and the second request is made exactly when all of them were
\* handled; the loop stops early only at a named call that has no id, and
\* then the turn has made one request.
C3_RequestsAndDispatchAmended ==
    (pc = "Idle" /\ FirstResponseComplete) =>
        LET named == NamedIndices(tool_calls_data)
            done == DispatchedIndices
        IN  /\ named = <<>> => (llm_requests = 1 /\ done = <<>>)
            /\ (named # <<>> /\ ended = "no_session") =>
                  (llm_requests = 1 /\ done = <<>>)
            /\ (named # <<>> /\ ended \in {"committed", "llm_error"}) =>
                  (llm_requests = 2 /\ done = named)
            /\ (named # <<>> /\ ended = "dispatch_error") =>
                  /\ llm_requests = 1
                  /\ done # <<>>
                  /\ Len(done) <= Len(named)
                  /\ done = SubSeq(named, 1, Len(done))
                  /\ \A k \in 1..Len(done) :
                        ("id" \in tool_calls_data[done[k]].keys) <=> (k < Len(done))

\* C3 witness: a completed turn with two requests and two calls handled.
C3_Witness ==
    /\ pc = "Idle"
    /\ ended = "committed"
    /\ llm_requests = 2
    /\ Len(dispatch_log) = 2

\* C4 (as claimed): when the loop over the tool calls is over, the emitted
\* tool-result messages are, in order, one per call with a non-empty
\* function name, each carrying that call's id and name; calls with an
\* empty name are not handled.
C4_OneResultPerNamedCall ==
    ToolPhaseOver =>
        LET named == NamedIndices(tool_calls_data)
        IN  /\ Len(DispatcherResults) = Len(named)
            /\ \A k \in 1..Len(named) :
                  /\ DispatcherResults[k].role = "tool"
                  /\ DispatcherResults[k].tool_call_id = tool_calls_data[named[k]].id
                  /\ DispatcherResults[k].name = tool_calls_data[named[k]].name
            /\ \A k \in 1..Len(dispatch_log) :
                  tool_calls_data[dispatch_log[k].index].name # <<>>

\* A handled call failed: wrong prefix, unparseable arguments, or call_tool
\* raised.
FailedEntry(e) == e.step \in {"bad_prefix", "bad_json"} \/ e.outcome = "raise"

\* What the tool-result of a failed call says.
FailureContent(e) ==
    IF e.step = "bad_prefix" THEN <<"Error: Tool name not in expected format">>
    ELSE IF e.step = "bad_json" THEN <<"Error: Invalid JSON arguments">>
    ELSE <<"Error calling MCP tool">>

\* C5 (as claimed): a turn in which a tool call failed still ends having made
\* the second LLM request, and every failed call has its tool-result message
\* describing the error.
C5_FailuresBecomeResults ==
    (pc = "Idle" /\ \E k \in 1..Len(dispatch_log) : FailedEntry(dispatch_log[k])) =>
        /\ llm_requests = 2
        /\ \A k \in 1..Len(dispatch_log) :
              FailedEntry(dispatch_log[k]) =>
                  /\ k <= Len(DispatcherResults)
                  /\ DispatcherResults[k].content = FailureContent(dispatch_log[k])

\* C6 (as claimed): call_tool is invoked only for a call whose name has the
\* provider prefix and whose arguments parse; a call failing either check
\* gets no call_tool and, once the loop is over, has exactly one tool-result
\* message.
C6_ChecksGuardCallTool ==
    \A k \in 1..Len(dispatch_log) :
        LET e == dispatch_log[k]
            tc == tool_calls_data[e.index]
            ok == /\ Len(tc.name) >= 3
                  /\ SubSeq(tc.name, 1, 3) = <<"postgres", "_", "_">>
                  /\ (tc.arguments = <<"{", "}">>
                      \/ (tc.arguments # <<>> /\ \A i \in 1..Len(tc.arguments) : tc.arguments[i] = "1"))
        IN  /\ (e.step = "call_tool") <=> ok
            /\ (~ok /\ ToolPhaseOver) =>
                  /\ k <= Len(DispatcherResults)
                  /\ DispatcherResults[k].role = "tool"
                  /\ DispatcherResults[k].tool_call_id = tc.id
                  /\ DispatcherResults[k].name = tc.name

\* C7 (as claimed): a turn ended by a failed LLM request leaves in history
\* only what was appended before the failure: the user message, and the
\* assistant message with the tool calls when the second request failed; no
\* assistant text message of the turn is stored.
C7_FailedTurnStoresNoAssistantText ==
    (pc = "Idle" /\ ended = "llm_error") =>
        /\ Len(history) = turn_start + llm_requests
        /\ \A i \in (turn_start + 1)..Len(history) :
              ~(history[i].role = "assistant" /\ history[i].tool_calls = <<>>)

\* C8 (as claimed): a turn that completes without an LLM failure has
\* appended exactly one assistant message holding the final text, whatever
\* the text, and it is the last entry of history.
C8_FinalTextAlwaysCommitted ==
    (pc = "Idle" /\ ended = "committed") =>
        /\ Len(history) = turn_start + llm_requests + 1
        /\ history[Len(history)] =
              [role |-> "assistant", content |-> FinalText, tool_calls |-> <<>>,
               tool_call_id |-> <<>>, name |-> <<>>]

\* C8 (amended): the same for every non-empty final text; with an empty
\* final text the turn appends no assistant text message.
C8_NonEmptyFinalTextCommitted ==
    (pc = "Idle" /\ ended = "committed") =>
        IF FinalText # <<>>
        THEN /\ Len(history) = turn_start + llm_requests + 1
             /\ history[Len(history)] =
                   [role |-> "assistant", content |-> FinalText, tool_calls |-> <<>>,
                    tool_call_id |-> <<>>, name |-> <<>>]
        ELSE Len(history) = turn_start + llm_requests

\* C8 witness: a turn with a tool phase completed with a non-empty text.
C8_Witness ==
    /\ pc = "Idle"
    /\ ended = "committed"
    /\ llm_requests = 2
    /\ FinalText # <<>>

\* C9 (as claimed): decoding the encoded name gives the short name back.
C9_RoundTrip ==
    roundtrip.stage = "resolved" => roundtrip.actual = roundtrip.name

\* A short name in which no '_' is followed by '_' or by '/'.
Unambiguous(n) ==
    \A i \in 1..(Len(n) - 1) : n[i] = "_" => n[i + 1] \notin {"_", "/"}

\* C9 (amended): decoding the encoded name gives the short name back when
\* no '_' of the short name is followed by '_' or by '/'.
C9_RoundTripUnambiguous ==
    (roundtrip.stage = "resolved" /\ Unambiguous(roundtrip.name)) =>
        roundtrip.actual = roundtrip.name

\* C9 witness: a resolved name that holds both a '/' and a '_'.
C9_Witness ==
    /\ roundtrip.stage = "resolved"
    /\ Unambiguous(roundtrip.name)
    /\ \E i \in 1..Len(roundtrip.name) : roundtrip.name[i] = "/"
    /\ \E i \in 1..Len(roundtrip.name) : roundtrip.name[i] = "_"

\* The non-empty text fragments of a sequence of stream events, in order.
TextFragmentsOf(events) ==
    LET carrying == SelectSeq(events, LAMBDA c : c.choices /\ c.content # <<>>)
    IN  [i \in 1..Len(carrying) |-> carrying[i].content]

RECURSIVE Concatenation(_)
Concatenation(fragments) ==
    IF fragments = <<>> THEN <<>>
    ELSE Head(fragments) \o Concatenation(Tail(fragments))

\* C10: after any sequence of stream events without tool-call deltas,
\* full_response_text is the concatenation of the text fragments in arrival
\* order, tool_calls_data is empty, and the tokens forwarded to cl_msg are
\* those fragments in the same order.
C10_TextOnlyStream ==
    (\A i \in 1..Len(stream) : stream[i].tool_calls = <<>>) =>
        /\ full_response_text = Concatenation(TextFragmentsOf(stream))
        /\ tool_calls_data = <<>>
        /\ cl_msg = TextFragmentsOf(stream)

\* C10 witness: two different text fragments have arrived.
C10_Witness ==
    /\ Len(stream) = 2
    /\ stream[1] = [choices |-> TRUE, content |-> <<"a">>, tool_calls |-> <<>>]
    /\ stream[2] = [choices |-> TRUE, content |-> <<"b">>, tool_calls |-> <<>>]

\* The tool-call deltas of a sequence of stream events, in arrival order.
RECURSIVE DeltasOf(_)
DeltasOf(events) ==
    IF events = <<>> THEN <<>>
    ELSE (IF Head(events).choices THEN Head(events).tool_calls ELSE <<>>)
         \o DeltasOf(Tail(events))

\* The deltas addressed to one index, in arrival order.
DeltasFor(events, index) ==
    SelectSeq(DeltasOf(events), LAMBDA d : d.index = index)

\* C11: after any sequence of stream events, for every index that received
\* a delta, the record at that index holds as function.name the
\* concatenation of the name fragments addressed to the index and as
\* function.arguments the concatenation of its argument fragments, both in
\* arrival order, however the deltas of other indices and the text
\* fragments are interleaved.
C11_FragmentsConcatenated ==
    \A index \in 0..(Len(tool_calls_data) - 1) :
        LET ds == DeltasFor(stream, index)
        IN  ds # <<>> =>
              /\ tool_calls_data[index + 1].name =
                    Concatenation([k \in 1..Len(ds) |-> ds[k].name])
              /\ tool_calls_data[index + 1].arguments =
                    Concatenation([k \in 1..Len(ds) |-> ds[k].arguments])

\* C11 witness: index 0 got "p" and "{", index 1 got a delta in between,
\* then index 0 got "q" and "}".
C11_Witness ==
    /\ Len(DeltasFor(stream, 0)) = 2
    /\ Len(DeltasFor(stream, 1)) = 1
    /\ DeltasOf(stream)[2].index = 1
    /\ tool_calls_data[1].name = <<"p", "q">>
    /\ tool_calls_data[1].arguments = <<"{", "}">>

\* The non-empty values, in arrival order, that the deltas addressed to one
\* index supplied for a field.
SuppliedIds(events, index) ==
    SelectSeq([k \in 1..Len(DeltasFor(events, index)) |-> DeltasFor(events, index)[k].id],
              LAMBDA v : v # <<>>)

SuppliedTypes(events, index) ==
    SelectSeq([k \in 1..Len(DeltasFor(events, index)) |-> DeltasFor(events, index)[k].type],
              LAMBDA v : v # <<>>)

\* C15 (as claimed): for every index to which a delta supplied an id, the
\* id of the record at that index is the first id supplied; a later delta
\* with another id does not replace it.
C15_FirstIdKept ==
    \A index \in 0..(Len(tool_calls_data) - 1) :
        SuppliedIds(stream, index) # <<>> =>
            /\ "id" \in tool_calls_data[index + 1].keys
            /\ tool_calls_data[index + 1].id = SuppliedIds(stream, index)[1]

\* C16 (as claimed): for every index that received a delta, the type of the
\* record is the first type any of its deltas supplied, and is "function"
\* only when none of them supplied a type.
C16_FirstTypeKept ==
    \A index \in 0..(Len(tool_calls_data) - 1) :
        DeltasFor(stream, index) # <<>> =>
            /\ "type" \in tool_calls_data[index + 1].keys
            /\ tool_calls_data[index + 1].type =
                  IF SuppliedTypes(stream, index) # <<>>
                  THEN SuppliedTypes(stream, index)[1]
                  ELSE <<"function">>

\* C12 (as claimed): after a notification for the postgres provider the
\* catalog entry of the provider is the list of schemas converted from the
\* notification's tool list, one per tool in the same order, each named by
\* the namespaced name; it is empty when the list is empty or list_tools()
\* failed.
C12_CatalogReplaced ==
    last_connect.name = <<"postgres">> =>
        LET entry == IF <<"postgres">> \in DOMAIN openai_tools_for_mcp
                     THEN openai_tools_for_mcp[<<"postgres">>] ELSE <<>>
            tools == last_connect.tools
        IN  /\ Len(entry) = Len(tools)
            /\ \A i \in 1..Len(tools) :
                  /\ entry[i].name = OpenaiToolName(<<"postgres">>, tools[i].name)
                  /\ entry[i].description = tools[i].description

\* C19 (as claimed): no notification ends with an unhandled error, and a
\* notification for a provider other than postgres leaves the catalog and
\* the history as it found them.
C19_ConnectNeverFatal ==
    /\ ~connect_error
    /\ (last_connect.outcome # "none" /\ last_connect.name # <<"postgres">>) =>
          (openai_tools_for_mcp = last_connect.found /\ history = <<>>)

\* C14 (as claimed): in a session whose LLM client or MCP client class is
\* missing, each configuration error is shown to the user once, no LLM
\* request is made, no tool call is handled and the history stays empty.
C14_ConfigErrorReportedOnce ==
    ~(mcp_classes_available /\ azure_client) =>
        /\ \A i, j \in 1..Len(config_error_reports) :
              config_error_reports[i] = config_error_reports[j] => i = j
        /\ config_error_reports # <<>>
        /\ llm_requests = 0
        /\ dispatch_log = <<>>
        /\ history = <<>>

\* C17: a turn that has started (main is past its first request) eventually
\* returns, whatever the streams deliver and whatever the tool calls do.
C17_TurnReturns == (pc # "Idle") ~> (pc = "Idle")

\* C17 witness: a turn has returned after a tool call that raised.
C17_Witness ==
    /\ pc = "Idle"
    /\ llm_requests = 2
    /\ \E k \in 1..Len(dispatch_log) : dispatch_log[k].outcome = "raise"

\* C18 (as claimed): a turn that returns without having committed a final
\* text was ended by a failed LLM request or by the missing provider
\* session; in the latter case the error was shown, one request was made
\* and no call was handled.
C18_OnlyLlmOrSessionAborts ==
    /\ (pc = "Idle" /\ ended \notin {"none", "unconfigured", "committed"}) =>
          ended \in {"llm_error", "no_session"}
    /\ (pc = "Idle" /\ ended = "no_session") =>
          /\ llm_requests = 1
          /\ dispatch_log = <<>>
          /\ cl_msg # <<>>
          /\ cl_msg[Len(cl_msg)] = <<"Error: Could not find active MCP session">>

\* The largest index a delta of the events carried, -1 when there is none.
RECURSIVE MaxIndexOf(_)
MaxIndexOf(ds) ==
    IF ds = <<>> THEN -1
    ELSE IF Head(ds).index > MaxIndexOf(Tail(ds)) THEN Head(ds).index
    ELSE MaxIndexOf(Tail(ds))

\* C20: tool_calls_data is one longer than the largest index a delta
\* carried; a record that received no delta is never handled by the loop;
\* and a turn whose loop ran to its end handled exactly the named calls, in
\* order, with one tool-result each.
C20_PlaceholdersHarmless ==
    /\ Len(tool_calls_data) = MaxIndexOf(DeltasOf(stream)) + 1
    /\ \A k \in 1..Len(dispatch_log) :
          DeltasFor(stream, dispatch_log[k].index - 1) # <<>>
    /\ (ToolPhaseOver /\ ended # "dispatch_error") =>
          /\ DispatchedIndices = NamedIndices(tool_calls_data)
          /\ Len(DispatcherResults) = Len(DispatchedIndices)

\* C20 witness: index 1 was the only one addressed, so index 0 is a
\* placeholder; the call at index 1 was handled and the turn completed.
C20_Witness ==
    /\ pc = "Idle"
    /\ ended = "committed"
    /\ llm_requests = 2
    /\ DeltasFor(stream, 0) = <<>>
    /\ DeltasFor(stream, 1) # <<>>
    /\ tool_calls_data[1].keys = {}
    /\ DispatchedIndices = <<2>>

====
